---- MODULE Spec2Model ----
(***************************************************************************)
(* Model of brightspace.py: the poll loop that extracts assignment records *)
(* from iCal feeds (fetch_assignments_from_brightspace) and reconciles     *)
(* them against column B of a Google sheet (upload_to_google_sheets).      *)
(*                                                                         *)
(* Time is counted in minutes.  An aware datetime is a record              *)
(* [kind, wall, off]: wall-clock minutes and UTC offset in minutes; its    *)
(* instant is wall - off.  A date-only value is [kind |-> "date"] with     *)
(* wall the midnight of that day.  Text is a sequence of one-character     *)
(* strings.  An iCal property is <<>> when absent and <<v>> when present.  *)
(* The course column (C) is not modelled; no property below refers to it.  *)
(***************************************************************************)
EXTENDS Integers, Sequences, FiniteSets, TLC

\* ---------------------------------------------------------------- bounds
NumFeeds == 2
MaxBatch == 2
MaxSummaryLen == 2
MaxRows == 2
MaxTicks == 1

\* ------------------------------------------------------ program constants
WINDOW_DAYS == 14
POLL_SECONDS == 1800
max_retries == 5
Day == 1440

VARIABLES
    pc,               \* where the process stands in the loop of lines 234-246
    clock,            \* wall-clock time read by datetime.now (line 97)
    LOCAL_TZ,         \* UTC offset of the configured zone (line 22)
    now_local,        \* line 97
    url,              \* index in ICS_URLS of the feed being processed (line 102)
    instances,        \* occurrences of the current feed still to process (line 120)
    results,          \* records gathered so far, then the returned batch
    sheet,            \* rows of the worksheet: columns B, D, E, F, G
    attempt,          \* failed reads of column B in this cycle (line 172)
    existing_titles,  \* line 174
    updates,          \* line 186
    new_items,        \* line 187
    out               \* message printed by the last step, with the feed it is about

vars == <<pc, clock, LOCAL_TZ, now_local, url, instances, results,
          sheet, attempt, existing_titles, updates, new_items, out>>

fetchVars == <<url, instances, results>>
uploadVars == <<sheet, attempt, existing_titles, updates, new_items>>

\* ----------------------------------------------------------------- text
RECURSIVE lstrip(_)
lstrip(s) == IF s # <<>> /\ Head(s) = " " THEN lstrip(Tail(s)) ELSE s

RECURSIVE rstrip(_)
rstrip(s) ==
    IF s # <<>> /\ s[Len(s)] = " " THEN rstrip(SubSeq(s, 1, Len(s) - 1)) ELSE s

strip(s) == rstrip(lstrip(s))

NoName == <<"N", "o", " ", "N", "a", "m", "e">>

NotStarted == <<"N", "o", "t", " ", "S", "t", "a", "r", "t", "e", "d">>

Get(comp, key, default) == IF comp[key] = <<>> THEN default ELSE comp[key][1]

\* ------------------------------------------------------------- datetimes
Instant(dt) == dt.wall - dt.off

utc(instant) == [kind |-> "aware", wall |-> instant, off |-> 0]

astimezone(dt, off) == [kind |-> "aware", wall |-> Instant(dt) + off, off |-> off]

add_days(dt, days) == [dt EXCEPT !.wall = @ + days * Day]

strftime_date(dt) == dt.wall \div Day

days(due, now) == (Instant(due) - Instant(now)) \div Day

_to_local(dt_obj) ==
    LET dt == IF dt_obj.kind = "date"
                THEN utc((dt_obj.wall \div Day) * Day + 23 * 60 + 59)
                ELSE IF dt_obj.kind = "naive"
                       THEN utc(dt_obj.wall)
                       ELSE dt_obj
    IN  astimezone(dt, LOCAL_TZ)

_event_uid(comp) ==
    LET uid == strip(Get(comp, "UID", <<>>))
        stamp == IF comp.DTSTART = <<>>
                   THEN [fmt |-> "", val |-> 0]
                   ELSE LET dt == comp.DTSTART[1]
                        IN  IF dt.kind = "date"
                              THEN [fmt |-> "iso", val |-> dt.wall \div Day]
                              ELSE [fmt |-> "Z", val |-> Instant(dt)]
    IN  [id |-> uid, sep |-> IF uid # <<>> THEN "#" ELSE "", stamp |-> stamp]

\* ------------------------------------------------- per-occurrence transform
end_local == add_days(now_local, WINDOW_DAYS)


\* Variant: the lower bound of the window is not checked.
in_window_upper_only(due_local) == Instant(due_local) <= Instant(end_local)

in_window(due_local) ==
    /\ Instant(now_local) <= Instant(due_local)
    /\ Instant(due_local) <= Instant(end_local)

title_of(comp) ==
    LET s == Get(comp, "SUMMARY", <<>>)
    IN  strip(IF s # <<>> THEN s ELSE NoName)


\* Variant: the first threshold compared with < instead of <=.
priority_of_strict(days_left) ==
    IF days_left < 4 THEN "High"
    ELSE IF days_left <= 9 THEN "Standard"
    ELSE "Low"

priority_of(days_left) ==
    IF days_left <= 4 THEN "High"
    ELSE IF days_left <= 9 THEN "Standard"
    ELSE "Low"

make_record(comp, u) ==
    LET due_local == _to_local(comp.DTSTART[1])
    IN  [Assignment |-> title_of(comp),
         Status     |-> NotStarted,
         DueDate    |-> strftime_date(due_local),
         Priority   |-> priority_of(days(due_local, now_local)),
         Raw        |-> due_local,
         UID        |-> _event_uid(comp),
         Source     |-> u]

RECURSIVE records_of(_, _)
records_of(comps, u) ==
    IF comps = <<>> THEN <<>>
    ELSE IF Head(comps).DTSTART = <<>> THEN records_of(Tail(comps), u)
    ELSE IF ~ in_window(_to_local(Head(comps).DTSTART[1])) THEN records_of(Tail(comps), u)
    ELSE <<make_record(Head(comps), u)>> \o records_of(Tail(comps), u)

RECURSIVE insert_by_due(_, _)
insert_by_due(r, s) ==
    IF s = <<>> THEN <<r>>
    ELSE IF Instant(r.Raw) <= Instant(Head(s).Raw) THEN <<r>> \o s
    ELSE <<Head(s)>> \o insert_by_due(r, Tail(s))

RECURSIVE sort_by_due(_)
sort_by_due(s) ==
    IF s = <<>> THEN <<>> ELSE insert_by_due(Head(s), sort_by_due(Tail(s)))

pop_raw(r) == [k \in DOMAIN r \ {"Raw"} |-> r[k]]

\* --------------------------------------------------------------- reconcile
Range(s) == {s[i] : i \in 1..Len(s)}

Max(S) == CHOOSE x \in S : \A y \in S : y <= x
Min(S) == CHOOSE x \in S : \A y \in S : x <= y


\* Variant: an earlier entry is never overwritten by a later one.
title_to_row_first(titles) ==
    [t \in Range(titles) |-> Min({i \in 1..Len(titles) : titles[i] = t})]

title_to_row(titles) ==
    [t \in Range(titles) |-> Max({i \in 1..Len(titles) : titles[i] = t})]

RECURSIVE plan_updates(_, _)
plan_updates(data, t2r) ==
    IF data = <<>> THEN <<>>
    ELSE LET item == Head(data)
         IN  IF item.Assignment \in DOMAIN t2r
               THEN LET r == t2r[item.Assignment]
                    IN  <<[col |-> "F", row |-> r, value |-> <<"=E-TODAY()", r>>],
                          [col |-> "G", row |-> r, value |-> <<item.Priority>>]>>
                        \o plan_updates(Tail(data), t2r)
               ELSE plan_updates(Tail(data), t2r)

RECURSIVE plan_new_items(_, _)
plan_new_items(data, t2r) ==
    IF data = <<>> THEN <<>>
    ELSE IF Head(data).Assignment \in DOMAIN t2r
           THEN plan_new_items(Tail(data), t2r)
           ELSE <<Head(data)>> \o plan_new_items(Tail(data), t2r)


\* Variant: the snapshot is read from column D (index 4) instead of B.
col_values_D == [i \in 1..Len(sheet) |-> sheet[i].D]

col_values_B == [i \in 1..Len(sheet) |-> sheet[i].B]

RECURSIVE batch_update(_, _)
batch_update(sh, ups) ==
    IF ups = <<>> THEN sh
    ELSE LET u == Head(ups)
         IN  batch_update([sh EXCEPT ![u.row][u.col] = u.value], Tail(ups))

new_row(it, r) ==
    [B |-> it.Assignment,
     D |-> it.Status,
     E |-> it.DueDate,
     F |-> <<"=E-TODAY()", r>>,
     G |-> <<it.Priority>>]

update_range(sh, start_row, items) ==
    LET end_row == start_row + Len(items) - 1
        last    == IF end_row > Len(sh) THEN end_row ELSE Len(sh)
    IN  [i \in 1..last |->
            IF i \in start_row..end_row
              THEN new_row(items[i - start_row + 1], i)
              ELSE sh[i]]

\* ------------------------------------------------------------ environment
\* What the feeds may serve.  The poll loop draws small documents; the
\* extractor on its own (SpecFetch) starts from a document drawn from the
\* rich set.
SeqsUpTo(A, n) == UNION {[1..k -> A] : k \in 0..n}

BaseNow == 20 * Day + 12 * 60

naive(instant) == [kind |-> "naive", wall |-> instant, off |-> 0]
aware(instant, off) == [kind |-> "aware", wall |-> instant + off, off |-> off]
date(d) == [kind |-> "date", wall |-> d * Day, off |-> 0]

TzOffsets == {0 - 300, 0, 120}

Deltas == {0 - 1, 0, 5 * Day - 1, 5 * Day, 10 * Day - 1, 10 * Day,
           WINDOW_DAYS * Day, WINDOW_DAYS * Day + 1}

RichStarts ==
    {<<>>}
    \cup {<<date(d)>> : d \in {19, 20, 33, 34}}
    \cup {<<naive(BaseNow + dl)>> : dl \in Deltas}
    \cup {<<aware(BaseNow + dl, 60)>> :
             dl \in {0 - 1, 0, 5 * Day, WINDOW_DAYS * Day, WINDOW_DAYS * Day + 1}}

RichSummaries == {<<>>} \cup {<<s>> : s \in SeqsUpTo({" ", "Q"}, MaxSummaryLen)}

DueSoon == aware(BaseNow + 5 * Day, 0)

RichEvents ==
    {[SUMMARY |-> s, DTSTART |-> <<DueSoon>>, UID |-> <<>>] : s \in RichSummaries}
    \cup {[SUMMARY |-> <<<<"Q">>>>, DTSTART |-> st, UID |-> <<>>] : st \in RichStarts}
    \cup {[SUMMARY |-> <<<<"Q">>>>, DTSTART |-> st, UID |-> <<<<"u", " ">>>>] :
             st \in {<<date(20)>>, <<DueSoon>>}}

LeanEvents ==
    {[SUMMARY |-> <<<<t>>>>, DTSTART |-> <<DueSoon>>, UID |-> <<>>] : t \in {"Q", "E"}}
    \cup {[SUMMARY |-> <<<<"Q">>>>, DTSTART |-> st, UID |-> <<>>] :
             st \in {<<>>, <<naive(BaseNow - 1)>>}}

Docs(events) == SeqsUpTo(events, MaxBatch)

\* The occurrences served in one cycle are capped at MaxBatch, and the rows
\* the sheet would gain from them at MaxRows.
Fresh(titles) ==
    Cardinality({i \in 1..Len(titles) : titles[i] \notin Range(col_values_B)})

WithinCap(evs) ==
    /\ Len(results) + Len(evs) <= MaxBatch
    /\ Len(sheet)
         + Fresh([i \in 1..Len(results) |-> results[i].Assignment])
         + Fresh([i \in 1..Len(evs) |-> title_of(evs[i])]) <= MaxRows

\* -------------------------------------------------------------- messages
msg(text) == [text |-> text, url |-> 0]
warn(what, u) == [text |-> what, url |-> u]

\* ------------------------------------------------------------------ states
Init ==
    /\ pc = "loop"
    /\ clock = BaseNow
    /\ LOCAL_TZ = 0 - 300
    /\ now_local = astimezone(utc(BaseNow), 0 - 300)
    /\ url = 1
    /\ instances = <<>>
    /\ results = <<>>
    /\ sheet = <<>>
    /\ attempt = 0
    /\ existing_titles = <<>>
    /\ updates = <<>>
    /\ new_items = <<>>
    /\ out = msg("")

\* The extractor alone: the first feed's occurrences have just been bound.
InitFetch ==
    /\ pc = "comps"
    /\ clock = BaseNow
    /\ LOCAL_TZ \in TzOffsets
    /\ now_local = astimezone(utc(BaseNow), LOCAL_TZ)
    /\ url = 1
    /\ instances \in Docs(RichEvents)
    /\ results = <<>>
    /\ sheet = <<>>
    /\ attempt = 0
    /\ existing_titles = <<>>
    /\ updates = <<>>
    /\ new_items = <<>>
    /\ out = msg("checking")

\* ---------------------------------------- fetch_assignments_from_brightspace
\* __main__ line 236-238 and the prologue of the extractor (lines 97-100).
BeginCycle ==
    /\ pc = "loop"
    /\ pc' = "feed"
    /\ now_local' = astimezone(utc(clock), LOCAL_TZ)
    /\ url' = 1
    /\ results' = <<>>
    /\ out' = msg("checking")
    /\ UNCHANGED <<clock, LOCAL_TZ, instances, uploadVars>>


\* Variant: the fetch failure is not caught inside the loop over the feeds.
FetchFail_escapes ==
    /\ pc = "feed"
    /\ url <= NumFeeds
    /\ out' = msg("error")
    /\ pc' = "sleep"
    /\ UNCHANGED <<clock, LOCAL_TZ, now_local, fetchVars, uploadVars>>

\* requests.get / raise_for_status / Calendar.from_ical raises: warn, continue.
FetchFail ==
    /\ pc = "feed"
    /\ url <= NumFeeds
    /\ out' = warn("fetch", url)
    /\ url' = url + 1
    /\ UNCHANGED <<pc, clock, LOCAL_TZ, now_local, instances, results, uploadVars>>

\* The feed parses and recurring_ical_events returns the occurrences it finds.
ExpandOk ==
    /\ pc = "feed"
    /\ url <= NumFeeds
    /\ \E evs \in Docs(LeanEvents) :
          /\ WithinCap(evs)
          /\ instances' = evs
    /\ pc' = "comps"
    /\ out' = msg("")
    /\ UNCHANGED <<clock, LOCAL_TZ, now_local, url, results, uploadVars>>

\* The expansion raises: warn and take the raw VEVENTs of the document.
ExpandFallback ==
    /\ pc = "feed"
    /\ url <= NumFeeds
    /\ \E evs \in Docs(LeanEvents) :
          /\ WithinCap(evs)
          /\ instances' = evs
    /\ out' = warn("expand", url)
    /\ pc' = "comps"
    /\ UNCHANGED <<clock, LOCAL_TZ, now_local, url, results, uploadVars>>

\* Lines 120-154: the loop over the occurrences of the current feed, then
\* the next feed.
ProcessInstances ==
    /\ pc = "comps"
    /\ results' = results \o records_of(instances, url)
    /\ instances' = <<>>
    /\ url' = url + 1
    /\ pc' = "feed"
    /\ out' = msg("")
    /\ UNCHANGED <<clock, LOCAL_TZ, now_local, uploadVars>>

\* Lines 156-160: sort by due instant, drop the helper key, return.
ReturnResults ==
    /\ pc = "feed"
    /\ url > NumFeeds
    /\ results' = [i \in 1..Len(results) |-> pop_raw(sort_by_due(results)[i])]
    /\ pc' = "fetched"
    /\ out' = msg("")
    /\ UNCHANGED <<clock, LOCAL_TZ, now_local, url, instances, uploadVars>>

NextFetch ==
    \/ FetchFail
    \/ ExpandOk
    \/ ExpandFallback
    \/ ProcessInstances
    \/ ReturnResults

SpecFetch == InitFetch /\ [][NextFetch]_vars

\* ------------------------------------------------- upload_to_google_sheets
\* The cycle is over (a return or an exception caught at line 243): its last
\* message is printed, "Waiting ..." follows and the process sleeps.  The
\* locals of the two functions are dead from here on.
EndCycle(text, sh) ==
    /\ pc' = "sleep"
    /\ out' = msg(text)
    /\ sheet' = sh
    /\ url' = 1
    /\ instances' = <<>>
    /\ results' = <<>>
    /\ existing_titles' = <<>>
    /\ updates' = <<>>
    /\ new_items' = <<>>
    /\ UNCHANGED <<clock, LOCAL_TZ, now_local>>

\* __main__ line 239-242: an empty batch is not uploaded.
NoAssignments ==
    /\ pc = "fetched"
    /\ results = <<>>
    /\ EndCycle("none_found", sheet)
    /\ UNCHANGED attempt

\* Lines 167-168 succeed; the retry loop starts with attempt 0.
OpenSheet ==
    /\ pc = "fetched"
    /\ results # <<>>
    /\ attempt' = 0
    /\ pc' = "read"
    /\ out' = msg("")
    /\ UNCHANGED <<clock, LOCAL_TZ, now_local, url, instances, results, sheet,
                   existing_titles, updates, new_items>>

\* gspread.authorize / client.open raises: caught at line 243.
OpenSheetError ==
    /\ pc = "fetched"
    /\ results # <<>>
    /\ EndCycle("error", sheet)
    /\ UNCHANGED attempt

\* Variant: the for-else return is missing, the plan is made from no snapshot.
ReadApiError_falls_through ==
    /\ pc = "read"
    /\ attempt < max_retries
    /\ attempt' = attempt + 1
    /\ IF attempt + 1 = max_retries
         THEN /\ pc' = "refresh"
              /\ out' = msg("read_failed")
              /\ existing_titles' = <<>>
              /\ updates' = <<>>
              /\ new_items' = results
         ELSE /\ pc' = "read"
              /\ out' = msg("retrying")
              /\ UNCHANGED <<existing_titles, updates, new_items>>
    /\ UNCHANGED <<clock, LOCAL_TZ, now_local, fetchVars, sheet>>

\* sheet.col_values raises APIError: next attempt, or the for-else return.
ReadApiError ==
    /\ pc = "read"
    /\ attempt < max_retries
    /\ attempt' = attempt + 1
    /\ IF attempt + 1 = max_retries
         THEN EndCycle("read_failed", sheet)
         ELSE /\ pc' = "read"
              /\ out' = msg("retrying")
              /\ UNCHANGED <<clock, LOCAL_TZ, now_local, fetchVars, sheet,
                             existing_titles, updates, new_items>>

\* sheet.col_values raises something else: it escapes to line 243.
ReadError ==
    /\ pc = "read"
    /\ attempt < max_retries
    /\ EndCycle("error", sheet)
    /\ UNCHANGED attempt

\* Lines 174-196: the snapshot is read and the plan is computed.  The loop
\* variable is dead after the break and is put back to 0.
ReadOk ==
    /\ pc = "read"
    /\ attempt < max_retries
    /\ existing_titles' = col_values_B
    /\ updates' = plan_updates(results, title_to_row(col_values_B))
    /\ new_items' = plan_new_items(results, title_to_row(col_values_B))
    /\ attempt' = 0
    /\ pc' = "refresh"
    /\ out' = msg("")
    /\ UNCHANGED <<clock, LOCAL_TZ, now_local, fetchVars, sheet>>

SkipRefresh ==
    /\ pc = "refresh"
    /\ updates = <<>>
    /\ pc' = "append"
    /\ out' = msg("")
    /\ UNCHANGED <<clock, LOCAL_TZ, now_local, fetchVars, uploadVars>>

RefreshOk ==
    /\ pc = "refresh"
    /\ updates # <<>>
    /\ sheet' = batch_update(sheet, updates)
    /\ out' = msg("updated")
    /\ pc' = "append"
    /\ UNCHANGED <<clock, LOCAL_TZ, now_local, fetchVars, attempt,
                   existing_titles, updates, new_items>>

RefreshApiError ==
    /\ pc = "refresh"
    /\ updates # <<>>
    /\ out' = msg("update_failed")
    /\ pc' = "append"
    /\ UNCHANGED <<clock, LOCAL_TZ, now_local, fetchVars, uploadVars>>

\* batch_update raises something other than APIError: the append is skipped.
RefreshError ==
    /\ pc = "refresh"
    /\ updates # <<>>
    /\ EndCycle("error", sheet)
    /\ UNCHANGED attempt

NoNewItems ==
    /\ pc = "append"
    /\ new_items = <<>>
    /\ EndCycle("no_new", sheet)
    /\ UNCHANGED attempt

AppendOk ==
    /\ pc = "append"
    /\ new_items # <<>>
    /\ EndCycle("added", update_range(sheet, Len(existing_titles) + 1, new_items))
    /\ UNCHANGED attempt

AppendApiError ==
    /\ pc = "append"
    /\ new_items # <<>>
    /\ EndCycle("append_failed", sheet)
    /\ UNCHANGED attempt

\* Variant: the exception is not caught at the top of the cycle.
AppendError_uncaught ==
    /\ pc = "append"
    /\ new_items # <<>>
    /\ out' = msg("error")
    /\ pc' = "exit"
    /\ UNCHANGED <<clock, LOCAL_TZ, now_local, fetchVars, uploadVars>>

AppendError ==
    /\ pc = "append"
    /\ new_items # <<>>
    /\ EndCycle("error", sheet)
    /\ UNCHANGED attempt

\* Lines 245-246: time.sleep(POLL_SECONDS) is over; the clock is capped.
LastTick == BaseNow + MaxTicks * (POLL_SECONDS \div 60)

Sleep ==
    /\ pc = "sleep"
    /\ clock' = IF clock + POLL_SECONDS \div 60 <= LastTick
                  THEN clock + POLL_SECONDS \div 60
                  ELSE clock
    /\ pc' = "loop"
    /\ attempt' = 0
    /\ out' = msg("")
    /\ UNCHANGED <<LOCAL_TZ, now_local, fetchVars, sheet, existing_titles,
                   updates, new_items>>

Next ==
    \/ BeginCycle
    \/ FetchFail
    \/ ExpandOk
    \/ ExpandFallback
    \/ ProcessInstances
    \/ ReturnResults
    \/ NoAssignments
    \/ OpenSheet
    \/ OpenSheetError
    \/ ReadApiError
    \/ ReadError
    \/ ReadOk
    \/ SkipRefresh
    \/ RefreshOk
    \/ RefreshApiError
    \/ RefreshError
    \/ NoNewItems
    \/ AppendOk
    \/ AppendApiError
    \/ AppendError
    \/ Sleep

Spec == Init /\ [][Next]_vars

\* Every step of the loop terminates (timeouts, bounded retries, finite
\* sleep), so the sequential process keeps taking steps.
FairSpec == Spec /\ WF_vars(Next)

\* ============================================================== properties
HasRaw(r) == "Raw" \in DOMAIN r

LastIndexOf(titles, t) == Max({i \in 1..Len(titles) : titles[i] = t})
FirstIndexOf(titles, t) == Min({i \in 1..Len(titles) : titles[i] = t})

IsRecorded(it) == it.Assignment \in Range(existing_titles)
Refreshed == SelectSeq(results, IsRecorded)

\* C1: once the planned appends have been written at their target rows,
\* reconciling the same batch against the resulting column B plans no append,
\* turns every record into a refresh (two cell updates each), and leaves the
\* number of rows as it is.
ReconcileIdempotent ==
    [][(pc = "append" /\ out' = msg("added")) =>
          LET t2r == title_to_row(col_values_B')
              again == plan_updates(results, t2r)
          IN  /\ Len(sheet') = Len(existing_titles) + Len(new_items)
              /\ plan_new_items(results, t2r) = <<>>
              /\ Len(again) = 2 * Len(results)
              /\ Len(batch_update(sheet', again)) = Len(sheet')
      ]_vars

W_ReconcileIdempotent ==
    /\ pc = "sleep"
    /\ out = msg("added")
    /\ Len(sheet) = MaxRows

\* C2: no two rows of the sheet carry the same title, and an append is
\* planned only for a title that the snapshot does not hold.
NoDuplicateRows ==
    /\ \A i, j \in 1..Len(sheet) : i # j => sheet[i].B # sheet[j].B
    /\ \A k \in 1..Len(new_items) : ~ IsRecorded(new_items[k])

\* C3 as stated: every refresh of a title targets the lowest row holding it.
RefreshTargetsFirstRow ==
    pc \in {"refresh", "append"} =>
        /\ Len(updates) = 2 * Len(Refreshed)
        /\ \A j \in 1..Len(Refreshed) :
              /\ updates[2 * j - 1].row = FirstIndexOf(existing_titles, Refreshed[j].Assignment)
              /\ updates[2 * j].row = FirstIndexOf(existing_titles, Refreshed[j].Assignment)

\* C3 amended: when the snapshot holds a title at several positions the
\* mapping keeps the last one, so every refresh of that title (both the F
\* and the G cell) targets the highest row holding it.
RefreshTargetsLastRow ==
    pc \in {"refresh", "append"} =>
        /\ Len(updates) = 2 * Len(Refreshed)
        /\ \A j \in 1..Len(Refreshed) :
              /\ updates[2 * j - 1].row = LastIndexOf(existing_titles, Refreshed[j].Assignment)
              /\ updates[2 * j].row = LastIndexOf(existing_titles, Refreshed[j].Assignment)

W_RefreshTargetsLastRow ==
    /\ pc = "refresh"
    /\ \E j \in 1..Len(Refreshed) :
          FirstIndexOf(existing_titles, Refreshed[j].Assignment)
            < LastIndexOf(existing_titles, Refreshed[j].Assignment)

\* C4: the title of every emitted record is non-empty and carries no
\* surrounding whitespace.
TitleNeverEmpty ==
    \A i \in 1..Len(results) :
        /\ results[i].Assignment # <<>>
        /\ results[i].Assignment = strip(results[i].Assignment)

\* C5 as stated: every emitted record is due in [now, now + WINDOW_DAYS days).
DueInHalfOpenWindow ==
    \A i \in 1..Len(results) :
        HasRaw(results[i]) =>
            /\ Instant(now_local) <= Instant(results[i].Raw)
            /\ Instant(results[i].Raw) < Instant(now_local) + WINDOW_DAYS * Day

\* C5 amended: every emitted record is due in the closed window
\* [now, now + WINDOW_DAYS days], the end instant included.
DueInClosedWindow ==
    \A i \in 1..Len(results) :
        HasRaw(results[i]) =>
            /\ Instant(now_local) <= Instant(results[i].Raw)
            /\ Instant(results[i].Raw) <= Instant(now_local) + WINDOW_DAYS * Day

W_DueInClosedWindow ==
    \E i \in 1..Len(results) :
        /\ HasRaw(results[i])
        /\ Instant(results[i].Raw) = Instant(now_local) + WINDOW_DAYS * Day

Expected(minutes) ==
    IF minutes < 5 * Day THEN "High"
    ELSE IF minutes < 10 * Day THEN "Standard"
    ELSE "Low"

\* C6: the label follows the whole days between now and the due instant:
\* fewer than 5 days (negative included) is High, 5 to 9 is Standard, 10 or
\* more is Low; every record carries exactly one of the three labels.
PriorityThresholds ==
    /\ \A i \in 1..Len(results) :
          /\ results[i].Priority \in {"High", "Standard", "Low"}
          /\ HasRaw(results[i]) =>
                results[i].Priority
                  = Expected(Instant(results[i].Raw) - Instant(now_local))
    /\ \A i \in 1..Len(instances) :
          instances[i].DTSTART # <<>> =>
              LET due == _to_local(instances[i].DTSTART[1])
                  left == Instant(due) - Instant(now_local)
                  days_left == days(due, now_local)
              IN  /\ days_left * Day <= left
                  /\ left < (days_left + 1) * Day
                  /\ priority_of(days_left) = Expected(left)

W_PriorityThresholds ==
    /\ \E i \in 1..Len(results) :
          /\ HasRaw(results[i])
          /\ Instant(results[i].Raw) - Instant(now_local) = 5 * Day - 1
          /\ results[i].Priority = "High"

\* C7: a record made from a date-only start d is due at 23:59 local time and
\* its formatted due date is d.
DateOnlyDueThatDay ==
    \A i \in 1..Len(results) :
        (HasRaw(results[i]) /\ results[i].UID.stamp.fmt = "iso") =>
            /\ results[i].Raw.wall % Day = 23 * 60 + 59
            /\ results[i].DueDate = results[i].UID.stamp.val

InsideWindow(comp) ==
    /\ comp.DTSTART # <<>>
    /\ LET due == _to_local(comp.DTSTART[1])
       IN  /\ Instant(due) >= Instant(now_local)
           /\ Instant(due) <= Instant(now_local) + WINDOW_DAYS * Day

Inside(comps) == {i \in 1..Len(comps) : InsideWindow(comps[i])}

\* C8: a feed that fails at fetch or parse is skipped with the records
\* gathered so far kept and the next feed taken; a feed whose expansion fails
\* goes on with its raw events; every occurrence of a healthy feed yields a
\* record exactly when it has a start inside the window; no record stems from
\* a failed feed (its records would carry its index, and the index only
\* grows) and extraction ends by returning.
FeedFailuresIsolated ==
    [][/\ (pc = "feed" /\ out' = warn("fetch", url)) =>
              /\ results' = results
              /\ pc' = "feed"
              /\ url' = url + 1
              /\ \A i \in 1..Len(results') : results'[i].Source # url
       /\ (pc = "feed" /\ out' = warn("expand", url)) =>
              (results' = results /\ pc' = "comps" /\ url' = url)
       /\ pc = "comps" =>
              /\ pc' = "feed"
              /\ url' = url + 1
              /\ Len(results') = Len(results) + Cardinality(Inside(instances))
              /\ SubSeq(results', 1, Len(results)) = results
              /\ \A i \in Len(results) + 1..Len(results') : results'[i].Source = url
       /\ pc \in {"feed", "comps"} =>
              (pc' \in {"feed", "comps", "fetched"} /\ url' \in {url, url + 1})
      ]_vars

W_FeedFailuresIsolated ==
    /\ pc = "feed"
    /\ url = NumFeeds + 1
    /\ out = warn("fetch", NumFeeds)
    /\ results # <<>>

\* C9: the snapshot read is attempted at most max_retries times in a cycle;
\* when the last attempt fails the cycle goes to sleep with the sheet as it
\* was; the plan and the two writes are reached only through a read that
\* succeeded in this cycle, and the sheet changes in no other place.
SnapshotReadBounded ==
    [][/\ attempt' <= max_retries
       /\ (pc = "read" /\ attempt' = max_retries) =>
              (pc' = "sleep" /\ out' = msg("read_failed") /\ sheet' = sheet)
       /\ (pc' = "refresh" /\ pc # "refresh") =>
              (pc = "read" /\ attempt < max_retries
                 /\ existing_titles' = col_values_B)
       /\ (pc' = "append" /\ pc # "append") => pc = "refresh"
       /\ sheet' # sheet => pc \in {"refresh", "append"}
      ]_vars

W_SnapshotReadBounded ==
    /\ pc = "sleep"
    /\ out = msg("read_failed")
    /\ attempt = max_retries
    /\ sheet # <<>>

\* C10: whatever fails inside a cycle, the process reaches the sleeping state
\* again and again and starts a cycle again and again; a cycle starts only
\* from the top of the loop, after the previous one has slept.
LoopNeverStops ==
    /\ []<>(pc = "sleep")
    /\ []<>(pc = "feed")
    /\ [][(pc' = "feed" /\ pc # "feed") => pc \in {"loop", "comps"}]_vars
    /\ [][pc' = "loop" => pc \in {"loop", "sleep"}]_vars

W_LoopNeverStops ==
    /\ pc = "sleep"
    /\ out = msg("error")
    /\ clock = LastTick
    /\ sheet # <<>>
====
